---- MODULE Spec2Model ----
(***************************************************************************)
(* convert-json-util (src/src/index.ts): convertJson validates a JSON      *)
(* value against an optional schema, serializes it to csv, yaml, xml,      *)
(* xlsx, txt or json, and optionally saves the payload under a fresh name  *)
(* in the directory "files".                                               *)
(*                                                                         *)
(* JavaScript strings are sequences of one-character strings, so joining,  *)
(* splitting and searching are computed character by character.  A         *)
(* JavaScript value is a record [t, n, s, kids]: t is its type tag, n the  *)
(* number (or 0/1 for a boolean), s the characters of a string, kids the   *)
(* entries [k, val] of an array (k empty) or of an object, in key order.   *)
(* Console output is not part of the state.                                *)
(***************************************************************************)
EXTENDS Integers, Sequences, FiniteSets, TLC

VARIABLES
    req,        \* the options object of the latest convertJson call
    ret,        \* how that call ended: a returned result or a thrown error
    calls,      \* the schema methods that call invoked, in order
    dirExists,  \* whether the output directory "files" exists
    files,      \* the files of that directory: name -> content
    procs,      \* SpecRace: where each of two concurrent calls stands, and its locals
    writeLog    \* SpecRace: the writes to the directory so far, in order

vars == <<req, ret, calls, dirExists, files, procs, writeLog>>

---------------------------------------------------------------------------
(* Bounds of the model. *)

\* the directory holds at most this many files: a call that would add one more is not taken
MaxFiles == 3
\* a rejecting schema reports at most this many issues
MaxIssues == 2
\* a string value given to the markup serializer has at most this many characters
MaxText == 3

---------------------------------------------------------------------------
(* JavaScript values. *)

Mk(t, n, s, kids) == [t |-> t, n |-> n, s |-> s, kids |-> kids]

Null == Mk("null", 0, <<>>, <<>>)

Undef == Mk("undefined", 0, <<>>, <<>>)

Num(i) == Mk("number", i, <<>>, <<>>)

Bool(b) == Mk("boolean", IF b THEN 1 ELSE 0, <<>>, <<>>)

Str(s) == Mk("string", 0, s, <<>>)

Entry(k, v) == [k |-> k, val |-> v]

Arr(items) == Mk("array", 0, <<>>, [i \in 1..Len(items) |-> Entry(<<>>, items[i])])

Obj(entries) == Mk("object", 0, <<>>, entries)

\* the elements of an array, the property values of an object
Items(v) == [i \in 1..Len(v.kids) |-> v.kids[i].val]

\* Array.isArray(v)
IsArray(v) == v.t = "array"

\* typeof v === 'object' (true of null and of arrays too)
TypeofObject(v) == v.t \in {"object", "array", "null"}

\* typeof v === 'object' && v !== null && !Array.isArray(v)
IsRecord(v) == v.t = "object"

\* v == null (null or undefined)
IsNullish(v) == v.t \in {"null", "undefined"}

\* the truthiness of v in `a && b`, `a || b`, `!a`
Truthy(v) ==
    CASE v.t \in {"null", "undefined"} -> FALSE
      [] v.t = "number" -> v.n # 0
      [] v.t = "boolean" -> v.n = 1
      [] v.t = "string" -> v.s # <<>>
      [] OTHER -> TRUE

---------------------------------------------------------------------------
(* Text. *)

Digit == <<"0", "1", "2", "3", "4", "5", "6", "7", "8", "9">>

RECURSIVE NumText(_)
\* the decimal digits of a natural number
NumText(n) == IF n < 10 THEN <<Digit[n + 1]>> ELSE NumText(n \div 10) \o <<Digit[(n % 10) + 1]>>

RECURSIVE JoinText(_, _)
\* Array.prototype.join on an array of strings
JoinText(parts, sep) ==
    IF Len(parts) = 0 THEN <<>>
    ELSE IF Len(parts) = 1 THEN parts[1]
    ELSE parts[1] \o sep \o JoinText(Tail(parts), sep)

RECURSIVE SplitText(_, _)
\* String.prototype.split on a one-character separator
SplitText(text, sep) ==
    IF \A i \in 1..Len(text) : text[i] # sep THEN <<text>>
    ELSE LET i == CHOOSE j \in 1..Len(text) : text[j] = sep /\ \A h \in 1..(j - 1) : text[h] # sep
         IN <<SubSeq(text, 1, i - 1)>> \o SplitText(SubSeq(text, i + 1, Len(text)), sep)

\* String.prototype.includes
Includes(text, sub) ==
    \E i \in 0..(Len(text) - Len(sub)) : SubSeq(text, i + 1, i + Len(sub)) = sub

TextUndefined == <<"u", "n", "d", "e", "f", "i", "n", "e", "d">>
TextNull == <<"n", "u", "l", "l">>
TextTrue == <<"t", "r", "u", "e">>
TextFalse == <<"f", "a", "l", "s", "e">>
TextObjectObject == <<"[", "o", "b", "j", "e", "c", "t", " ", "O", "b", "j", "e", "c", "t", "]">>

RECURSIVE ToStr(_)
RECURSIVE ArrayJoin(_, _)
\* String(v), which is also what a template literal `${v}` yields
ToStr(v) ==
    CASE v.t = "string" -> v.s
      [] v.t = "number" -> NumText(v.n)
      [] v.t = "boolean" -> IF v.n = 1 THEN TextTrue ELSE TextFalse
      [] v.t = "null" -> TextNull
      [] v.t = "undefined" -> TextUndefined
      [] v.t = "array" -> ArrayJoin(Items(v), <<",">>)
      [] OTHER -> TextObjectObject

\* Array.prototype.join on arbitrary elements: null and undefined join as ""
ArrayJoin(items, sep) ==
    JoinText([i \in 1..Len(items) |-> IF IsNullish(items[i]) THEN <<>> ELSE ToStr(items[i])], sep)

---------------------------------------------------------------------------
(* Property access and JSON round trip. *)

TextLength == <<"l", "e", "n", "g", "t", "h">>

\* whether key is the canonical text of an index below n
IsIndex(key, n) == \E i \in 0..(n - 1) : NumText(i) = key

IndexOf(key, n) == CHOOSE i \in 0..(n - 1) : NumText(i) = key

\* v[key] for a v that is neither null nor undefined; own properties, indices and
\* length only (methods inherited from a prototype are not modelled)
GetProp(v, key) ==
    CASE v.t = "object" ->
            IF \E i \in 1..Len(v.kids) : v.kids[i].k = key
            THEN v.kids[CHOOSE i \in 1..Len(v.kids) : v.kids[i].k = key].val
            ELSE Undef
      [] v.t = "array" ->
            IF key = TextLength THEN Num(Len(v.kids))
            ELSE IF IsIndex(key, Len(v.kids)) THEN v.kids[IndexOf(key, Len(v.kids)) + 1].val
            ELSE Undef
      [] v.t = "string" ->
            IF key = TextLength THEN Num(Len(v.s))
            ELSE IF IsIndex(key, Len(v.s)) THEN Str(<<v.s[IndexOf(key, Len(v.s)) + 1]>>)
            ELSE Undef
      [] OTHER -> Undef

\* Object.keys(v) for a v that is neither null nor undefined
ObjectKeys(v) ==
    CASE v.t = "object" -> [i \in 1..Len(v.kids) |-> v.kids[i].k]
      [] v.t = "array" -> [i \in 1..Len(v.kids) |-> NumText(i - 1)]
      [] v.t = "string" -> [i \in 1..Len(v.s) |-> NumText(i - 1)]
      [] OTHER -> <<>>

RECURSIVE JsonCopy(_)
RECURSIVE JsonCopyEntries(_)
\* JSON.parse(JSON.stringify(v)) for a v that JSON.stringify serializes: an undefined
\* array element becomes null, an undefined property is dropped
JsonCopy(v) ==
    CASE v.t = "array" ->
            Arr([i \in 1..Len(v.kids) |->
                    IF v.kids[i].val.t = "undefined" THEN Null ELSE JsonCopy(v.kids[i].val)])
      [] v.t = "object" -> Obj(JsonCopyEntries(v.kids))
      [] OTHER -> v

JsonCopyEntries(kids) ==
    IF Len(kids) = 0 THEN <<>>
    ELSE IF kids[1].val.t = "undefined" THEN JsonCopyEntries(Tail(kids))
    ELSE <<Entry(kids[1].k, JsonCopy(kids[1].val))>> \o JsonCopyEntries(Tail(kids))

\* the message of the SyntaxError of JSON.parse(undefined)
UndefinedIsNotJson == <<"\"", "u", "n", "d", "e", "f", "i", "n", "e", "d", "\"", " ", "i", "s", " ", "n", "o", "t", " ", "v", "a", "l", "i", "d", " ", "J", "S", "O", "N">>

---------------------------------------------------------------------------
(* Schema adapter.  A schema is absent, or an object exposing some of the  *)
(* methods safeParse, parse and validate; each method answers as the       *)
(* schema record says: it accepts (and hands the data back) or rejects.    *)

Methods == {"safeParse", "parse", "validate"}

Issue(path, message) == [path |-> path, message |-> message]

ParseOutcome(success, data, errors, called) ==
    [success |-> success, data |-> data, errors |-> errors, called |-> called]

AnUnknownErrorOccurred == <<"A", "n", " ", "u", "n", "k", "n", "o", "w", "n", " ", "e", "r", "r", "o", "r", " ", "o", "c", "c", "u", "r", "r", "e", "d">>

\* a probe that looks for parse before safeParse
Probe_ParseFirst(caps) ==
    IF "parse" \in caps THEN "parse"
    ELSE IF "safeParse" \in caps THEN "safeParse"
    ELSE IF "validate" \in caps THEN "validate"
    ELSE "copy"

\* the branch parseWithSchema takes for a schema object
Probe(caps) ==
    IF "safeParse" \in caps THEN "safeParse"
    ELSE IF "parse" \in caps THEN "parse"
    ELSE IF "validate" \in caps THEN "validate"
    ELSE "copy"

ParseWithSchema(schema, jsonData) ==
    IF ~schema.present THEN ParseOutcome(TRUE, jsonData, <<>>, <<>>)
    ELSE CASE Probe(schema.caps) = "safeParse" ->
                IF ~schema.safeParse.ok
                THEN ParseOutcome(FALSE, Undef,
                        [i \in 1..Len(schema.safeParse.issues) |->
                            Issue(schema.safeParse.issues[i].path, schema.safeParse.issues[i].message)],
                        <<"safeParse">>)
                ELSE ParseOutcome(TRUE, jsonData, <<>>, <<"safeParse">>)
           [] Probe(schema.caps) = "parse" ->
                IF schema.parse.ok THEN ParseOutcome(TRUE, jsonData, <<>>, <<"parse">>)
                ELSE IF schema.parse.isError
                THEN ParseOutcome(FALSE, Undef, <<Issue(Arr(<<>>), Str(schema.parse.message))>>, <<"parse">>)
                ELSE ParseOutcome(FALSE, Undef, <<Issue(Arr(<<>>), Str(AnUnknownErrorOccurred))>>, <<"parse">>)
           [] Probe(schema.caps) = "validate" ->
                IF ~schema.validate.ok
                THEN ParseOutcome(FALSE, Undef,
                        [i \in 1..Len(schema.validate.errors) |->
                            Issue(Arr(<<>>), schema.validate.errors[i])],
                        <<"validate">>)
                ELSE ParseOutcome(TRUE, jsonData, <<>>, <<"validate">>)
           [] OTHER ->
                IF jsonData.t = "undefined"
                THEN ParseOutcome(FALSE, Undef, <<Issue(Arr(<<>>), Str(UndefinedIsNotJson))>>, <<>>)
                ELSE ParseOutcome(TRUE, JsonCopy(jsonData), <<>>, <<>>)

---------------------------------------------------------------------------
(* Rendering of validation issues. *)

UnknownPath == <<"u", "n", "k", "n", "o", "w", "n", " ", "p", "a", "t", "h">>
NoMessageProvided == <<"N", "o", " ", "m", "e", "s", "s", "a", "g", "e", " ", "p", "r", "o", "v", "i", "d", "e", "d">>
UnknownErrorOccurred == <<"U", "n", "k", "n", "o", "w", "n", " ", "e", "r", "r", "o", "r", " ", "o", "c", "c", "u", "r", "r", "e", "d", "!", " ", "t", "r", "y", " ", "c", "h", "e", "c", "k", "i", "n", "g", " ", "y", "o", "u", "r", " ", "J", "S", "O", "N">>
ValidationErrorAt == <<"V", "a", "l", "i", "d", "a", "t", "i", "o", "n", " ", "e", "r", "r", "o", "r", " ", "a", "t", " ", "\"">>
QuoteColon == <<"\"", ":", " ">>
\* the message of the TypeError of calling err.path.join when path has no join method
JoinIsNotAFunction == <<"e", "r", "r", ".", "p", "a", "t", "h", ".", "j", "o", "i", "n", " ", "i", "s", " ", "n", "o", "t", " ", "a", " ", "f", "u", "n", "c", "t", "i", "o", "n">>

\* err.path && err.path.length > 0
HasPath(path) ==
    /\ Truthy(path)
    /\ LET len == GetProp(path, TextLength) IN len.t = "number" /\ len.n > 0

\* whether err.path.join('.') throws: only an array has a join method
JoinThrows(path) == HasPath(path) /\ ~IsArray(path)

PathText(path) == IF HasPath(path) THEN ArrayJoin(Items(path), <<".">>) ELSE UnknownPath

MessageText(message) == IF Truthy(message) THEN ToStr(message) ELSE NoMessageProvided

FormatIssue(err) ==
    ValidationErrorAt \o PathText(err.path) \o QuoteColon \o MessageText(err.message)

\* a formatting that stops after the first issue
FormatErrors_FirstOnly(errors) ==
    IF Len(errors) = 0 THEN [threw |-> FALSE, messages |-> <<UnknownErrorOccurred>>]
    ELSE IF JoinThrows(errors[1].path) THEN [threw |-> TRUE, messages |-> <<>>]
    ELSE [threw |-> FALSE, messages |-> <<FormatIssue(errors[1])>>]

\* formatErrors: [threw, messages]; threw means the map callback threw a TypeError
FormatErrors(errors) ==
    IF Len(errors) = 0 THEN [threw |-> FALSE, messages |-> <<UnknownErrorOccurred>>]
    ELSE IF \E i \in 1..Len(errors) : JoinThrows(errors[i].path)
    THEN [threw |-> TRUE, messages |-> <<>>]
    ELSE [threw |-> FALSE, messages |-> [i \in 1..Len(errors) |-> FormatIssue(errors[i])]]

---------------------------------------------------------------------------
(* Results.  A serializer returns {success: true, fileData} or throws.     *)
(* fileData is [kind, text, data]: "text" is a string whose characters are *)
(* text; "bytes" a Buffer of the characters text; "pretty" the string      *)
(* JSON.stringify(data, null, 2) and "yaml" the string stringify(data),    *)
(* both kept as the data they print; "value" the value data itself.        *)

Payload(kind, text, data) == [kind |-> kind, text |-> text, data |-> data]

NoPayload == Payload("none", <<>>, Undef)

Return(fileData) ==
    [kind |-> "return", success |-> TRUE, fileData |-> fileData, errName |-> "", message |-> <<>>]

Throw(errName, message) ==
    [kind |-> "throw", success |-> FALSE, fileData |-> NoPayload, errName |-> errName, message |-> message]

ConversionError == <<" ", "C", "o", "n", "v", "e", "r", "s", "i", "o", "n", " ", "E", "r", "r", "o", "r", ":", " ">>
CommaSpace == <<",", " ">>
NeitherArrayNorObject == <<"J", "S", "O", "N", " ", "d", "a", "t", "a", " ", "i", "s", " ", "n", "e", "i", "t", "h", "e", "r", " ", "a", "n", " ", "a", "r", "r", "a", "y", " ", "n", "o", "r", " ", "a", "n", " ", "o", "b", "j", "e", "c", "t">>
ArrayIsEmpty == <<"J", "S", "O", "N", " ", "d", "a", "t", "a", " ", "a", "r", "r", "a", "y", " ", "i", "s", " ", "e", "m", "p", "t", "y">>
\* the message of the TypeError of Object.keys(null) and Object.keys(undefined)
CannotConvertToObject == <<"C", "a", "n", "n", "o", "t", " ", "c", "o", "n", "v", "e", "r", "t", " ", "u", "n", "d", "e", "f", "i", "n", "e", "d", " ", "o", "r", " ", "n", "u", "l", "l", " ", "t", "o", " ", "o", "b", "j", "e", "c", "t">>
CannotReadPropertiesOf == <<"C", "a", "n", "n", "o", "t", " ", "r", "e", "a", "d", " ", "p", "r", "o", "p", "e", "r", "t", "i", "e", "s", " ", "o", "f", " ">>
ReadingOpen == <<" ", "(", "r", "e", "a", "d", "i", "n", "g", " ", "'">>
ReadingClose == <<"'", ")">>
TextToString == <<"t", "o", "S", "t", "r", "i", "n", "g">>

\* the message of the TypeError of reading property key of null or undefined
CannotRead(v, key) ==
    CannotReadPropertiesOf \o ToStr(v) \o ReadingOpen \o key \o ReadingClose

\* the throw of a serializer whose validation failed
ValidationFailure(label, errors) ==
    LET formattedErrors == FormatErrors(errors)
    IN IF formattedErrors.threw THEN Throw("TypeError", JoinIsNotAFunction)
       ELSE Throw("Error", label \o ConversionError \o JoinText(formattedErrors.messages, CommaSpace))

\* the normalisation of jsonToCsv and jsonToTxt: "array", "single", "neither"
Shape(data) ==
    IF IsArray(data) THEN "array"
    ELSE IF TypeofObject(data) /\ data.t # "null" THEN "single"
    ELSE "neither"

DataArray(data) == IF IsArray(data) THEN Items(data) ELSE <<data>>

---------------------------------------------------------------------------
(* Flattener. *)

\* the own enumerable properties of a value that is neither null nor undefined
PropEntries(v) ==
    CASE v.t = "object" -> v.kids
      [] v.t = "array" -> [i \in 1..Len(v.kids) |-> Entry(NumText(i - 1), v.kids[i].val)]
      [] v.t = "string" -> [i \in 1..Len(v.s) |-> Entry(NumText(i - 1), Str(<<v.s[i]>>))]
      [] OTHER -> <<>>

NewPrefix(prefix, key) == IF prefix # <<>> THEN prefix \o <<".">> \o key ELSE key

RECURSIVE Extract(_, _)
RECURSIVE ExtractEntries(_, _)
\* the headers one call of extract adds, in order, repetitions included
Extract(obj, prefix) == ExtractEntries(PropEntries(obj), prefix)

ExtractEntries(entries, prefix) ==
    IF Len(entries) = 0 THEN <<>>
    ELSE LET value == entries[1].val
             newPrefix == NewPrefix(prefix, entries[1].k)
         IN (IF IsRecord(value) THEN Extract(value, newPrefix) ELSE <<newPrefix>>)
            \o ExtractEntries(Tail(entries), prefix)

\* headers kept in a list that is never deduplicated
AddAll_NoDedupe(headers, more) == headers \o more

RECURSIVE AddAll(_, _)
\* Set.add of each element in turn: insertion order, first occurrence kept
AddAll(headers, more) ==
    IF Len(more) = 0 THEN headers
    ELSE AddAll(IF \E i \in 1..Len(headers) : headers[i] = more[1] THEN headers
                ELSE Append(headers, more[1]), Tail(more))

RECURSIVE ExtractFrom(_)
ExtractFrom(dataArray) ==
    IF Len(dataArray) = 0 THEN <<>>
    ELSE Extract(dataArray[1], <<>>) \o ExtractFrom(Tail(dataArray))

\* Object.keys(item) throws a TypeError for a null or undefined item
ExtractHeadersThrows(dataArray) == \E i \in 1..Len(dataArray) : IsNullish(dataArray[i])

ExtractHeaders(dataArray) == AddAll(<<>>, ExtractFrom(dataArray))

RECURSIVE Reduce(_, _)
\* parts.reduce((acc, part) => acc && acc[part], acc)
Reduce(acc, parts) ==
    IF Len(parts) = 0 THEN acc
    ELSE Reduce(IF Truthy(acc) THEN GetProp(acc, parts[1]) ELSE acc, Tail(parts))

GetValueFromPath(obj, path) == Reduce(obj, SplitText(path, "."))

RECURSIVE FormatComplexValue(_)
\* a string for an array or a record, the value itself otherwise
FormatComplexValue(value) ==
    IF IsArray(value)
    THEN Str(ArrayJoin([i \in 1..Len(value.kids) |-> FormatComplexValue(value.kids[i].val)], CommaSpace))
    ELSE IF IsRecord(value)
    THEN Str(<<"{">>
             \o JoinText([i \in 1..Len(value.kids) |->
                    value.kids[i].k \o <<":", " ">> \o ToStr(FormatComplexValue(value.kids[i].val))], <<",">>)
             \o <<"}">>)
    ELSE value

---------------------------------------------------------------------------
(* Serializers. *)

CsvCell(value) ==
    IF IsArray(value) \/ TypeofObject(value)
    THEN <<"\"">> \o ToStr(FormatComplexValue(value)) \o <<"\"">>
    ELSE <<"\"">> \o ToStr(value) \o <<"\"">>

CsvRow(item, headers) ==
    JoinText([h \in 1..Len(headers) |-> CsvCell(GetValueFromPath(item, headers[h]))], <<",">>) \o <<"\n">>

RECURSIVE CsvRows(_, _)
CsvRows(dataArray, headers) ==
    IF Len(dataArray) = 0 THEN <<>>
    ELSE CsvRow(dataArray[1], headers) \o CsvRows(Tail(dataArray), headers)

CsvData(dataArray) ==
    LET headers == ExtractHeaders(dataArray)
    IN JoinText(headers, <<",">>) \o <<"\n">> \o CsvRows(dataArray, headers)

LabelCsv == <<"C", "S", "V">>
LabelYaml == <<"Y", "A", "M", "L">>
LabelXml == <<"X", "M", "L">>
LabelXlsx == <<"X", "L", "S", "X">>
LabelTxt == <<"T", "X", "T">>
LabelJaon == <<"J", "A", "O", "N">>

\* the part of jsonToCsv after a successful validation
CsvOf(data) ==
    IF Shape(data) = "neither" THEN Throw("Error", NeitherArrayNorObject)
    ELSE IF Len(DataArray(data)) = 0 THEN Throw("Error", ArrayIsEmpty)
    ELSE IF ExtractHeadersThrows(DataArray(data)) THEN Throw("TypeError", CannotConvertToObject)
    ELSE Return(Payload("text", CsvData(DataArray(data)), Undef))

JsonToCsv(parseData) ==
    IF ~parseData.success THEN ValidationFailure(LabelCsv, parseData.errors)
    ELSE CsvOf(parseData.data)

\* the part of jsonToTxt after a successful validation
TxtOf(data) ==
    IF Shape(data) = "neither" THEN Throw("Error", NeitherArrayNorObject)
    ELSE IF Len(DataArray(data)) = 0 THEN Throw("Error", ArrayIsEmpty)
    ELSE Return(Payload("pretty", <<>>, JsonCopy(Arr(DataArray(data)))))

JsonToTxt(parseData) ==
    IF ~parseData.success THEN ValidationFailure(LabelTxt, parseData.errors)
    ELSE TxtOf(parseData.data)

RECURSIVE YamlThrows(_)
\* stringify reaches formatPrimitive(undefined), whose value.toString() throws
YamlThrows(obj) ==
    CASE obj.t = "undefined" -> TRUE
      [] obj.t \in {"array", "object"} -> \E i \in 1..Len(obj.kids) : YamlThrows(obj.kids[i].val)
      [] OTHER -> FALSE

JsonToYaml(parseData) ==
    IF ~parseData.success THEN ValidationFailure(LabelYaml, parseData.errors)
    ELSE IF YamlThrows(parseData.data) THEN Throw("TypeError", CannotRead(Undef, TextToString))
    ELSE Return(Payload("yaml", <<>>, parseData.data))

JsonToJaon(parseData) ==
    IF ~parseData.success THEN ValidationFailure(LabelJaon, parseData.errors)
    ELSE Return(Payload("value", <<>>, parseData.data))

MockXlsxBuffer == <<"T", "h", "i", "s", " ", "i", "s", " ", "a", " ", "m", "o", "c", "k", " ", "x", "l", "s", "x", " ", "b", "u", "f", "f", "e", "r">>

\* utils.json_to_sheet: the TypeError it throws, if any; the sheet itself is dropped
\* by generateXlsxBuffer
SheetThrow(jsonData) ==
    IF Len(jsonData) = 0 \/ IsNullish(jsonData[1]) THEN <<CannotConvertToObject>>
    ELSE LET headers == ObjectKeys(jsonData[1])
         IN IF Len(headers) > 0 /\ \E r \in 1..Len(jsonData) : IsNullish(jsonData[r])
            THEN <<CannotRead(jsonData[CHOOSE r \in 1..Len(jsonData) :
                        IsNullish(jsonData[r]) /\ \A q \in 1..(r - 1) : ~IsNullish(jsonData[q])],
                        headers[1])>>
            ELSE <<>>

\* the part of jsonToXlsx after a successful validation
XlsxOf(data) ==
    IF SheetThrow(DataArray(data)) # <<>> THEN Throw("TypeError", SheetThrow(DataArray(data))[1])
    ELSE Return(Payload("bytes", MockXlsxBuffer, Undef))

JsonToXlsx(parseData) ==
    IF ~parseData.success THEN ValidationFailure(LabelXlsx, parseData.errors)
    ELSE XlsxOf(parseData.data)

---------------------------------------------------------------------------
(* Markup serializer. *)

RECURSIVE ReplaceAll(_, _, _)
\* String.prototype.replace with a global one-character pattern
ReplaceAll(text, ch, replacement) ==
    IF Len(text) = 0 THEN <<>>
    ELSE (IF text[1] = ch THEN replacement ELSE <<text[1]>>) \o ReplaceAll(Tail(text), ch, replacement)

EntityAmp == <<"&", "a", "m", "p", ";">>
EntityLt == <<"&", "l", "t", ";">>
EntityGt == <<"&", "g", "t", ";">>
EntityQuot == <<"&", "q", "u", "o", "t", ";">>
EntityApos == <<"&", "a", "p", "o", "s", ";">>

\* an escaping that replaces & after the other four, so that it escapes their entities again
EscapeXml_AmpLast(value) ==
    IF value.t # "string" THEN ToStr(value)
    ELSE ReplaceAll(ReplaceAll(ReplaceAll(ReplaceAll(ReplaceAll(value.s,
            "<", EntityLt), ">", EntityGt), "\"", EntityQuot), "'", EntityApos), "&", EntityAmp)

EscapeXml(value) ==
    IF value.t # "string" THEN ToStr(value)
    ELSE ReplaceAll(ReplaceAll(ReplaceAll(ReplaceAll(ReplaceAll(value.s,
            "&", EntityAmp), "<", EntityLt), ">", EntityGt), "\"", EntityQuot), "'", EntityApos)

Element(key, content) == <<"<">> \o key \o <<">">> \o content \o <<"<", "/">> \o key \o <<">">>

TextItem == <<"i", "t", "e", "m">>

RECURSIVE BuildXml(_)
RECURSIVE BuildXmlEntries(_)
RECURSIVE BuildXmlRepeat(_, _)
BuildXml(obj) ==
    IF IsRecord(obj) THEN BuildXmlEntries(obj.kids)
    ELSE IF IsArray(obj)
    THEN JoinText([i \in 1..Len(obj.kids) |-> Element(TextItem, EscapeXml(obj.kids[i].val))], <<>>)
    ELSE EscapeXml(obj)

\* the for..in loop over the keys of a record
BuildXmlEntries(kids) ==
    IF Len(kids) = 0 THEN <<>>
    ELSE LET key == kids[1].k
             value == kids[1].val
         IN (IF IsArray(value) THEN BuildXmlRepeat(key, Items(value))
             ELSE IF TypeofObject(value) /\ value.t # "null" THEN Element(key, BuildXml(value))
             ELSE Element(key, EscapeXml(value)))
            \o BuildXmlEntries(Tail(kids))

\* an array-valued key repeats its element once per item
BuildXmlRepeat(key, items) ==
    IF Len(items) = 0 THEN <<>>
    ELSE Element(key, BuildXml(items[1])) \o BuildXmlRepeat(key, Tail(items))

WhiteSpace == {" ", "\n", "\t", "\r"}

RECURSIVE TrimStart(_)
TrimStart(text) ==
    IF Len(text) > 0 /\ text[1] \in WhiteSpace THEN TrimStart(Tail(text)) ELSE text

RECURSIVE TrimEnd(_)
TrimEnd(text) ==
    IF Len(text) > 0 /\ text[Len(text)] \in WhiteSpace THEN TrimEnd(SubSeq(text, 1, Len(text) - 1)) ELSE text

\* String.prototype.trim
Trim(text) == TrimEnd(TrimStart(text))

XmlBuilder(obj, rootElement) ==
    Trim(IF rootElement # <<>> THEN Element(rootElement, BuildXml(obj)) ELSE BuildXml(obj))

JsonToXml(parseData, rootName) ==
    IF ~parseData.success THEN ValidationFailure(LabelXml, parseData.errors)
    ELSE Return(Payload("text", XmlBuilder(parseData.data, rootName), Undef))

---------------------------------------------------------------------------
(* Dispatch. *)

TypeCsv == <<"c", "s", "v">>
TypeYaml == <<"y", "a", "m", "l">>
TypeXml == <<"x", "m", "l">>
TypeXlsx == <<"x", "l", "s", "x">>
TypeTxt == <<"t", "x", "t">>
TypeJson == <<"j", "s", "o", "n">>

\* a dispatch whose default is the csv serializer
SerializerOf_DefaultCsv(fileType) ==
    CASE fileType = TypeYaml -> "jsonToYaml"
      [] fileType = TypeXml -> "jsonToXml"
      [] fileType = TypeXlsx -> "jsonToXlsx"
      [] fileType = TypeTxt -> "jsonToTxt"
      [] fileType = TypeJson -> "jsonToJaon"
      [] OTHER -> "jsonToCsv"

\* the serializer byFileType selects
SerializerOf(fileType) ==
    CASE fileType = TypeCsv -> "jsonToCsv"
      [] fileType = TypeYaml -> "jsonToYaml"
      [] fileType = TypeXml -> "jsonToXml"
      [] fileType = TypeXlsx -> "jsonToXlsx"
      [] fileType = TypeTxt -> "jsonToTxt"
      [] fileType = TypeJson -> "jsonToJaon"
      [] OTHER -> "jsonToTxt"

\* the result of the selected serializer, given the outcome of its parseWithSchema call
Serialize(serializer, parseData, fileName) ==
    CASE serializer = "jsonToCsv" -> JsonToCsv(parseData)
      [] serializer = "jsonToYaml" -> JsonToYaml(parseData)
      [] serializer = "jsonToXml" -> JsonToXml(parseData, fileName)
      [] serializer = "jsonToXlsx" -> JsonToXlsx(parseData)
      [] serializer = "jsonToJaon" -> JsonToJaon(parseData)
      [] OTHER -> JsonToTxt(parseData)

ByFileType(jsonData, schema, fileType, fileName) ==
    Serialize(SerializerOf(fileType), ParseWithSchema(schema, jsonData), fileName)

---------------------------------------------------------------------------
(* File sink.  The directory is path.resolve('files'); a file is known by  *)
(* its name in it.  File stems hold no path separator.                     *)

\* the position of the last "." of a name, 0 if there is none
LastDot(name) ==
    IF \E i \in 1..Len(name) : name[i] = "."
    THEN CHOOSE i \in 1..Len(name) : name[i] = "." /\ \A j \in (i + 1)..Len(name) : name[j] # "."
    ELSE 0

\* path.extname: from the last "." on, empty when there is none or the name starts with it
ExtName(name) == IF LastDot(name) <= 1 THEN <<>> ELSE SubSeq(name, LastDot(name), Len(name))

\* path.basename(name, ext)
BaseName(name, ext) ==
    IF ext # <<>> /\ Len(name) > Len(ext) /\ SubSeq(name, Len(name) - Len(ext) + 1, Len(name)) = ext
    THEN SubSeq(name, 1, Len(name) - Len(ext))
    ELSE name

RECURSIVE UniqueLoop(_, _, _, _, _)
\* the while loop of getUniqueFilePath; existing is what fs.existsSync answers true for
UniqueLoop(existing, baseName, ext, uniqueFileName, counter) ==
    IF uniqueFileName \in existing
    THEN UniqueLoop(existing, baseName, ext,
                    baseName \o <<"(">> \o NumText(counter) \o <<")">> \o ext, counter + 1)
    ELSE uniqueFileName

\* a name search that tries (1) and stops
GetUniqueFilePath_ChecksOnce(existing, fileName) ==
    IF fileName \in existing
    THEN BaseName(fileName, ExtName(fileName)) \o <<"(", "1", ")">> \o ExtName(fileName)
    ELSE fileName

GetUniqueFilePath(existing, fileName) ==
    UniqueLoop(existing, BaseName(fileName, ExtName(fileName)), ExtName(fileName), fileName, 1)

\* `${fileName}.${fileType}`
OutputName(fileName, fileType) == fileName \o <<".">> \o fileType

\* a save that forgets the saveToFile flag
ShouldPersist_IgnoresFlag(saveToFile, result) == result.success

\* the condition under which convertJson saves
ShouldPersist(saveToFile, result) == saveToFile /\ result.success

\* fs.writeFileSync takes a string or a Buffer
IsWritable(fileData) == fileData.kind # "value" \/ fileData.data.t = "string"

\* what a successful write leaves in the file; a value that is no string is written
\* as String(value) by a runtime that coerces it
Written(fileData) ==
    IF fileData.kind = "value" THEN Payload("text", ToStr(fileData.data), Undef) ELSE fileData

PermissionDenied == <<"E", "A", "C", "C", "E", "S", ":", " ", "p", "e", "r", "m", "i", "s", "s", "i", "o", "n", " ", "d", "e", "n", "i", "e", "d">>
NoSpaceLeft == <<"E", "N", "O", "S", "P", "C", ":", " ", "n", "o", " ", "s", "p", "a", "c", "e", " ", "l", "e", "f", "t", " ", "o", "n", " ", "d", "e", "v", "i", "c", "e">>
InvalidDataArgument == <<"T", "h", "e", " ", "\"", "d", "a", "t", "a", "\"", " ", "a", "r", "g", "u", "m", "e", "n", "t", " ", "m", "u", "s", "t", " ", "b", "e", " ", "o", "f", " ", "t", "y", "p", "e", " ", "s", "t", "r", "i", "n", "g", " ", "o", "r", " ", "a", "n", " ", "i", "n", "s", "t", "a", "n", "c", "e", " ", "o", "f", " ", "B", "u", "f", "f", "e", "r", ",", " ", "T", "y", "p", "e", "d", "A", "r", "r", "a", "y", ",", " ", "o", "r", " ", "D", "a", "t", "a", "V", "i", "e", "w", ".">>

\* What the file system and the runtime do to one save:
\*   "ok"          mkdirSync and writeFileSync succeed; data that is no string or Buffer is refused
\*   "coerce"      as "ok", on a runtime whose writeFileSync coerces other data to a string
\*   "mkdirFails"  mkdirSync throws (only when the directory is missing)
\*   "openFails"   writeFileSync throws before the file is created
\*   "writeFails"  writeFileSync creates the file and throws before any byte is written
IoOutcomes == {"ok", "coerce", "mkdirFails", "openFails", "writeFails"}

\* the save of convertJson: [ret, dirExists, files] after it
Persist(result, fileName, fileType, io, dir, fs) ==
    LET outputFilePath == GetUniqueFilePath(DOMAIN fs, OutputName(fileName, fileType))
    IN IF ~dir /\ io = "mkdirFails"
       THEN [ret |-> Throw("Error", PermissionDenied), dirExists |-> dir, files |-> fs]
       ELSE IF ~IsWritable(result.fileData) /\ io # "coerce"
       THEN [ret |-> Throw("TypeError", InvalidDataArgument), dirExists |-> TRUE, files |-> fs]
       ELSE IF io = "openFails"
       THEN [ret |-> Throw("Error", PermissionDenied), dirExists |-> TRUE, files |-> fs]
       ELSE IF io = "writeFails"
       THEN [ret |-> Throw("Error", NoSpaceLeft), dirExists |-> TRUE,
             files |-> (outputFilePath :> Payload("text", <<>>, Undef)) @@ fs]
       ELSE [ret |-> result, dirExists |-> TRUE,
             files |-> (outputFilePath :> Written(result.fileData)) @@ fs]

---------------------------------------------------------------------------
(* convertJson. *)

Options(jsonData, schema, saveToFile, fileName, fileType) ==
    [jsonData |-> jsonData, schema |-> schema, saveToFile |-> saveToFile,
     fileName |-> fileName, fileType |-> fileType]

\* one call of convertJson with options r, the file system answering io
ConvertJson(r, io) ==
    LET result == ByFileType(r.jsonData, r.schema, r.fileType, r.fileName)
        saved == Persist(result, r.fileName, r.fileType, io, dirExists, files)
    IN /\ req' = r
       /\ calls' = ParseWithSchema(r.schema, r.jsonData).called
       /\ IF result.kind = "return" /\ ShouldPersist(r.saveToFile, result)
          THEN /\ Cardinality(DOMAIN files) < MaxFiles
               /\ ret' = saved.ret
               /\ dirExists' = saved.dirExists
               /\ files' = saved.files
          ELSE /\ ret' = result
               /\ UNCHANGED <<dirExists, files>>
       /\ UNCHANGED <<procs, writeLog>>

---------------------------------------------------------------------------
(* Inputs. *)

\* a record sequence has at most this many records
MaxRecords == 2

SeqsUpTo(S, n) == UNION {[1..k -> S] : k \in 0..n}

KeyA == <<"a">>
KeyB == <<"b">>
KeyC == <<"c">>
StrX == Str(<<"x">>)
EmptyArr == Arr(<<>>)

\* {a: 1}
Rec1 == Obj(<<Entry(KeyA, Num(1))>>)

Records ==
    { Rec1,
      \* {a: {b: 2}, c: "x"}
      Obj(<<Entry(KeyA, Obj(<<Entry(KeyB, Num(2))>>)), Entry(KeyC, StrX)>>),
      \* {b: "x\ny"}
      Obj(<<Entry(KeyB, Str(<<"x", "\n", "y">>))>>),
      \* {"a,b": 3}
      Obj(<<Entry(<<"a", ",", "b">>, Num(3))>>),
      \* {}
      Obj(<<>>),
      \* {a: [1, {b: "y"}], c: null}
      Obj(<<Entry(KeyA, Arr(<<Num(1), Obj(<<Entry(KeyB, Str(<<"y">>))>>)>>)), Entry(KeyC, Null)>>),
      \* {"a.b": 4}
      Obj(<<Entry(<<"a", ".", "b">>, Num(4))>>),
      \* {a: 0, c: undefined}
      Obj(<<Entry(KeyA, Num(0)), Entry(KeyC, Undef)>>) }

RecordSequences == {Arr(s) : s \in SeqsUpTo(Records, MaxRecords) \ {<<>>}}

Scalars == {Undef, Null, Num(0), Num(5), Str(<<>>), StrX, Bool(TRUE)}

\* sequences whose items are not all records
OtherSequences ==
    {EmptyArr, Arr(<<Null>>), Arr(<<Num(1)>>), Arr(<<StrX>>), Arr(<<Arr(<<Rec1>>)>>), Arr(<<Rec1, Null>>)}

JsonValues == Scalars \cup Records \cup RecordSequences \cup OtherSequences

SafeParseResult(ok, issues) == [ok |-> ok, issues |-> issues]
ParseResult(ok, isError, message) == [ok |-> ok, isError |-> isError, message |-> message]
ValidateResult(ok, errors) == [ok |-> ok, errors |-> errors]

Schema(present, caps, safeParse, parse, validate) ==
    [present |-> present, caps |-> caps, safeParse |-> safeParse, parse |-> parse, validate |-> validate]

SafeParseAccepts == SafeParseResult(TRUE, <<>>)
ParseAccepts == ParseResult(TRUE, TRUE, <<>>)
ValidateAccepts == ValidateResult(TRUE, <<>>)

\* schema: null, the default
NoSchema == Schema(FALSE, {}, SafeParseAccepts, ParseAccepts, ValidateAccepts)

\* schemas exposing any of the three methods, each accepting or rejecting on its own
ProbedSchemas ==
    { Schema(TRUE, caps, sp, p, v) :
        caps \in SUBSET Methods,
        sp \in {SafeParseAccepts, SafeParseResult(FALSE, <<Issue(Arr(<<Str(KeyA)>>), Str(<<"s">>))>>)},
        p \in {ParseAccepts, ParseResult(FALSE, TRUE, <<"p">>)},
        v \in {ValidateAccepts, ValidateResult(FALSE, <<Str(<<"v">>)>>)} }

\* a parse method that throws something that is no Error
ThrowingSchema == Schema(TRUE, {"parse"}, SafeParseAccepts, ParseResult(FALSE, FALSE, <<>>), ValidateAccepts)

TextBad == <<"b", "a", "d">>

\* issues a safeParse may report: the path missing, empty, an array, a string, a number
IssueSamples ==
    { Issue(path, message) :
        path \in {Undef, Arr(<<>>), Arr(<<Str(KeyA)>>), Arr(<<Str(KeyA), Num(0)>>), Str(KeyA), Num(7)},
        message \in {Undef, Str(TextBad)} }

IssueSchemas ==
    { Schema(TRUE, {"safeParse"}, SafeParseResult(FALSE, issues), ParseAccepts, ValidateAccepts) :
        issues \in SeqsUpTo(IssueSamples, MaxIssues) }

ErrorSamples == {Str(TextBad), Str(<<"n", "o">>), Str(<<>>)}

ValidateSchemas ==
    { Schema(TRUE, {"validate"}, SafeParseAccepts, ParseAccepts, ValidateResult(FALSE, errors)) :
        errors \in SeqsUpTo(ErrorSamples, MaxIssues) }

\* a validate method that reports one error
RejectingSchema ==
    Schema(TRUE, {"validate"}, SafeParseAccepts, ParseAccepts, ValidateResult(FALSE, <<Str(TextBad)>>))

Schemas == {NoSchema, ThrowingSchema} \cup ProbedSchemas \cup IssueSchemas \cup ValidateSchemas

TypePdf == <<"p", "d", "f">>
FileTypes == {TypeCsv, TypeYaml, TypeXml, TypeXlsx, TypeTxt, TypeJson}

\* fileName: "data", the default
DefaultName == <<"d", "a", "t", "a">>
\* a stem that looks like a name getUniqueFilePath makes up
SuffixedName == DefaultName \o <<"(", "1", ")">>

\* calls that do not save: every value with and without a schema that only copies,
\* and every schema on a record, an empty sequence and a scalar
ConvRequests ==
    { Options(d, s, FALSE, DefaultName, t) :
        d \in JsonValues, s \in {NoSchema, Schema(TRUE, {}, SafeParseAccepts, ParseAccepts, ValidateAccepts)},
        t \in FileTypes \cup {TypePdf} }
    \cup
    { Options(d, s, FALSE, DefaultName, t) :
        d \in {Rec1, EmptyArr, Num(5)}, s \in Schemas, t \in FileTypes \cup {TypePdf} }

\* calls on a shared directory
SinkRequests ==
    { Options(d, NoSchema, save, name, t) :
        d \in {Rec1, StrX}, save \in BOOLEAN, name \in {DefaultName, SuffixedName},
        t \in {TypeCsv, TypeJson, TypePdf} }
    \cup
    { Options(EmptyArr, NoSchema, save, DefaultName, t) : save \in BOOLEAN, t \in {TypeCsv, TypeJson, TypePdf} }
    \cup
    { Options(Rec1, RejectingSchema, save, DefaultName, TypeCsv) : save \in BOOLEAN }

---------------------------------------------------------------------------
(* Specifications. *)

NotCalled == [kind |-> "none", success |-> FALSE, fileData |-> NoPayload, errName |-> "", message |-> <<>>]

\* the processes of SpecRace
Procs == {1, 2}

\* a process that has not called convertJson yet, with the locals of the call
NotStarted(r) ==
    [pc |-> "call", req |-> r, result |-> NotCalled, uniqueFileName |-> <<>>, counter |-> 1,
     ret |-> NotCalled]

\* Spec: calls of convertJson one after another on one directory
Init ==
    /\ req = Options(Undef, NoSchema, FALSE, DefaultName, TypeTxt)
    /\ ret = NotCalled
    /\ calls = <<>>
    /\ dirExists = FALSE
    /\ files = <<>>
    /\ procs = [p \in Procs |-> NotStarted(req)]
    /\ writeLog = <<>>

Next ==
    \E r \in SinkRequests :
        \E io \in (IF r.saveToFile THEN IoOutcomes ELSE {"ok"}) : ConvertJson(r, io)

Spec == Init /\ [][Next]_vars

\* SpecConv: one call that does not save, on any of the inputs
InitConv ==
    /\ req \in ConvRequests
    /\ ret = NotCalled
    /\ calls = <<>>
    /\ dirExists = FALSE
    /\ files = <<>>
    /\ procs = [p \in Procs |-> NotStarted(req)]
    /\ writeLog = <<>>

NextConv == ret.kind = "none" /\ ConvertJson(req, "ok")

SpecConv == InitConv /\ [][NextConv]_vars

\* SpecXml: one call of the markup serializer on a string value, standing alone, as
\* a property value, as an item of a sequence, or as an item of a sequence-valued
\* property; the root element is named "data" or, with an empty fileName, left out
XmlAlphabet == {"&", "<", ">", "\"", "'", ";", "a", " "}

XmlTexts == SeqsUpTo(XmlAlphabet, MaxText)

XmlShapes == {"alone", "property", "item", "propertyItem"}

Shaped(shape, text) ==
    CASE shape = "alone" -> Str(text)
      [] shape = "property" -> Obj(<<Entry(KeyA, Str(text))>>)
      [] shape = "item" -> Arr(<<Str(text)>>)
      [] OTHER -> Obj(<<Entry(KeyA, Arr(<<Str(text)>>))>>)

XmlRequests ==
    { Options(Shaped(shape, text), NoSchema, FALSE, name, TypeXml) :
        shape \in XmlShapes, text \in XmlTexts, name \in {DefaultName, <<>>} }

InitXml ==
    /\ req \in XmlRequests
    /\ ret = NotCalled
    /\ calls = <<>>
    /\ dirExists = FALSE
    /\ files = <<>>
    /\ procs = [p \in Procs |-> NotStarted(req)]
    /\ writeLog = <<>>

NextXml == ret.kind = "none" /\ ConvertJson(req, "ok")

SpecXml == InitXml /\ [][NextXml]_vars

\* SpecRace: two processes call convertJson at the same time on one directory.  Each
\* call is cut at its file system calls: byFileType (line 16), fs.existsSync of the
\* directory (line 19), fs.mkdirSync (line 19), one fs.existsSync per turn of the
\* loop of getUniqueFilePath (lines 57-60) and fs.writeFileSync (line 21).
RaceData == {Rec1, StrX, Obj(<<Entry(KeyB, Num(2))>>)}

RaceRequests ==
    { Options(d, NoSchema, TRUE, DefaultName, t) : d \in RaceData, t \in {TypeCsv, TypeTxt, TypeJson} }

\* a file that was in the directory before the calls
OldFile == Payload("text", <<"o", "l", "d">>, Undef)

DirectoriesBefore ==
    { <<>>,
      [n \in {OutputName(DefaultName, t) : t \in {TypeCsv, TypeTxt, TypeJson}} |-> OldFile] }

FileAlreadyExists == <<"E", "E", "X", "I", "S", "T", ":", " ", "f", "i", "l", "e", " ", "a", "l", "r", "e", "a", "d", "y", " ", "e", "x", "i", "s", "t", "s">>

InitRace ==
    /\ req = Options(Undef, NoSchema, FALSE, DefaultName, TypeTxt)
    /\ ret = NotCalled
    /\ calls = <<>>
    /\ files \in DirectoriesBefore
    /\ dirExists \in (IF files = <<>> THEN BOOLEAN ELSE {TRUE})
    /\ procs \in [Procs -> {NotStarted(r) : r \in RaceRequests}]
    /\ writeLog = <<>>

\* fs.writeFileSync with flag "wx", which refuses a path that exists
WriteFileSync_Exclusive(fs, path, fileData) ==
    IF path \in DOMAIN fs
    THEN [threw |-> TRUE, files |-> fs]
    ELSE [threw |-> FALSE, files |-> (path :> Written(fileData)) @@ fs]

\* fs.writeFileSync(path, fileData): creates the file or replaces its content
WriteFileSync(fs, path, fileData) ==
    [threw |-> FALSE, files |-> (path :> Written(fileData)) @@ fs]

\* the call ends in process p, returning or throwing r
Ends(p, r) == procs' = [procs EXCEPT ![p].pc = "done", ![p].ret = r]

\* the locals of getUniqueFilePath before its loop (lines 52-55)
EntersLoop(p) ==
    procs' = [procs EXCEPT ![p].pc = "while",
                           ![p].uniqueFileName = OutputName(procs[p].req.fileName, procs[p].req.fileType),
                           ![p].counter = 1]

\* lines 16-17: the conversion, and whether the result is saved
RaceByFileType(p) ==
    LET r == procs[p].req
        result == ByFileType(r.jsonData, r.schema, r.fileType, r.fileName)
    IN /\ procs[p].pc = "call"
       /\ IF result.kind = "return" /\ ShouldPersist(r.saveToFile, result)
          THEN procs' = [procs EXCEPT ![p].pc = "existsSync", ![p].result = result]
          ELSE procs' = [procs EXCEPT ![p].pc = "done", ![p].result = result, ![p].ret = result]
       /\ UNCHANGED <<req, ret, calls, dirExists, files, writeLog>>

\* line 19: fs.existsSync(outputDir)
RaceExistsSync(p) ==
    /\ procs[p].pc = "existsSync"
    /\ IF dirExists THEN EntersLoop(p) ELSE procs' = [procs EXCEPT ![p].pc = "mkdirSync"]
    /\ UNCHANGED <<req, ret, calls, dirExists, files, writeLog>>

\* line 19: fs.mkdirSync(outputDir), which throws when the directory exists by now
RaceMkdirSync(p) ==
    /\ procs[p].pc = "mkdirSync"
    /\ IF dirExists
       THEN Ends(p, Throw("Error", FileAlreadyExists)) /\ UNCHANGED dirExists
       ELSE EntersLoop(p) /\ dirExists' = TRUE
    /\ UNCHANGED <<req, ret, calls, files, writeLog>>

\* lines 57-60: one test of the loop of getUniqueFilePath, and its body
RaceWhile(p) ==
    LET name == OutputName(procs[p].req.fileName, procs[p].req.fileType)
        ext == ExtName(name)
    IN /\ procs[p].pc = "while"
       /\ IF procs[p].uniqueFileName \in DOMAIN files
          THEN procs' = [procs EXCEPT
                   ![p].uniqueFileName =
                       BaseName(name, ext) \o <<"(">> \o NumText(procs[p].counter) \o <<")">> \o ext,
                   ![p].counter = procs[p].counter + 1]
          ELSE procs' = [procs EXCEPT ![p].pc = "writeFileSync"]
       /\ UNCHANGED <<req, ret, calls, dirExists, files, writeLog>>

\* line 21: fs.writeFileSync(outputFilePath, result.fileData), then the return of line 25
RaceWriteFileSync(p) ==
    LET path == procs[p].uniqueFileName
        written == WriteFileSync(files, path, procs[p].result.fileData)
    IN /\ procs[p].pc = "writeFileSync"
       /\ IF ~IsWritable(procs[p].result.fileData)
          THEN Ends(p, Throw("TypeError", InvalidDataArgument)) /\ UNCHANGED <<files, writeLog>>
          ELSE IF written.threw
          THEN Ends(p, Throw("Error", FileAlreadyExists)) /\ UNCHANGED <<files, writeLog>>
          ELSE /\ Ends(p, procs[p].result)
               /\ files' = written.files
               /\ writeLog' = Append(writeLog, [proc |-> p, path |-> path, created |-> path \notin DOMAIN files])
       /\ UNCHANGED <<req, ret, calls, dirExists>>

NextRace ==
    \E p \in Procs :
        \/ RaceByFileType(p)
        \/ RaceExistsSync(p)
        \/ RaceMkdirSync(p)
        \/ RaceWhile(p)
        \/ RaceWriteFileSync(p)

SpecRace == InitRace /\ [][NextRace]_vars

---------------------------------------------------------------------------
(* Claims. *)

\* the serializer of request r returns a result
ConversionSucceeds(r) == ByFileType(r.jsonData, r.schema, r.fileType, r.fileName).kind = "return"

\* C1: convertJson touches the directory only when saveToFile is true and the
\* conversion returned a result: a call with saveToFile = false, and a call whose
\* serializer fails, creates no directory and writes or changes no file.
C1_SinkOnlyOnPersistAndSuccess ==
    [][(~req'.saveToFile \/ ~ConversionSucceeds(req')) =>
            (dirExists' = dirExists /\ files' = files)]_vars

\* a call asked to save whose serializer failed, and there is still no directory
C1_Witness ==
    /\ req.saveToFile
    /\ ret.kind = "throw"
    /\ ~ConversionSucceeds(req)
    /\ ~dirExists

\* C2: when the conversion succeeded and saveToFile is true, the caller gets the
\* successful result whatever happens while the directory is made and the file is
\* written.
C2_ResultUnchangedBySink ==
    (ret.kind # "none" /\ req.saveToFile /\ ConversionSucceeds(req)) =>
        ret = ByFileType(req.jsonData, req.schema, req.fileType, req.fileName)

\* a schema validation failure, top-level data that is no record or sequence, or an
\* empty sequence
ConversionErrs(r) ==
    LET parseData == ParseWithSchema(r.schema, r.jsonData)
    IN \/ ~parseData.success
       \/ Shape(parseData.data) = "neither"
       \/ (IsArray(parseData.data) /\ Len(parseData.data.kids) = 0)

\* C3: when an error occurs during conversion, convertJson returns an object with
\* success = false (and the errors), for every fileType.
C3_ErrorsAreReturned ==
    (ret.kind # "none" /\ ConversionErrs(req)) => (ret.kind = "return" /\ ~ret.success)

\* fileName(k).ext
Numbered(fileName, k, fileType) ==
    fileName \o <<"(">> \o NumText(k) \o <<")", ".">> \o fileType

\* C4: a successful call with saveToFile = true leaves every file that was there
\* as it was and adds exactly one: fileName.ext if that name was free, otherwise
\* fileName(k).ext for the smallest k >= 1 whose name was free.
C4_FreshNameEachSave ==
    [][(req'.saveToFile /\ ret'.kind = "return") =>
            LET plain == OutputName(req'.fileName, req'.fileType)
                added == DOMAIN files' \ DOMAIN files
            IN /\ \A f \in DOMAIN files : f \in DOMAIN files' /\ files'[f] = files[f]
               /\ Cardinality(DOMAIN files') = Cardinality(DOMAIN files) + 1
               /\ IF plain \notin DOMAIN files THEN added = {plain}
                  ELSE \E k \in 1..(Cardinality(DOMAIN files) + 1) :
                          /\ added = {Numbered(req'.fileName, k, req'.fileType)}
                          /\ \A j \in 1..(k - 1) :
                                Numbered(req'.fileName, j, req'.fileType) \in DOMAIN files]_vars

\* the third save under one name went to data(2).csv
C4_Witness ==
    /\ req.saveToFile
    /\ ret.kind = "return"
    /\ req.fileName = DefaultName
    /\ DOMAIN files = { OutputName(DefaultName, TypeCsv),
                        Numbered(DefaultName, 1, TypeCsv),
                        Numbered(DefaultName, 2, TypeCsv) }

\* C5: a schema object exposing some of safeParse, parse and validate has exactly
\* one of them called, once: the first it exposes in that order.  A schema exposing
\* none has nothing called, and the data is copied by JSON.parse(JSON.stringify(..))
\* (which fails for undefined).
C5_FirstMatchWins ==
    (ret.kind # "none" /\ req.schema.present) =>
        LET caps == req.schema.caps
        IN /\ "safeParse" \in caps => calls = <<"safeParse">>
           /\ ("safeParse" \notin caps /\ "parse" \in caps) => calls = <<"parse">>
           /\ (caps = {"validate"}) => calls = <<"validate">>
           /\ (caps = {}) =>
                /\ calls = <<>>
                /\ IF req.jsonData.t = "undefined" THEN ret.kind = "throw"
                   ELSE ret = ByFileType(JsonCopy(req.jsonData), NoSchema, req.fileType, req.fileName)

\* a schema exposing all three had safeParse called, and nothing else
C5_Witness ==
    /\ ret.kind # "none"
    /\ req.schema.present
    /\ req.schema.caps = Methods
    /\ ~req.schema.parse.ok
    /\ calls = <<"safeParse">>
    /\ ret.kind = "return"

\* C6: a fileType that is none of the six is served as 'txt' is: the same result or
\* the same failure, for every input and schema.
C6_UnknownTypeIsTxt ==
    (ret.kind # "none" /\ req.fileType \notin FileTypes) =>
        ret = ByFileType(req.jsonData, req.schema, TypeTxt, req.fileName)

\* a call with fileType 'pdf' returned a result
C6_Witness ==
    /\ req.fileType = TypePdf
    /\ ret.kind = "return"
    /\ ret.fileData.kind = "pretty"

Tabular == {TypeCsv, TypeXlsx, TypeTxt}

TextEmpty == <<"e", "m", "p", "t", "y">>

\* C7: without a schema, csv, xlsx and txt each fail on an empty sequence with a
\* message containing "empty", and on a scalar or null with the "neither an array
\* nor an object" message.
C7_TabularRejects ==
    (ret.kind # "none" /\ ~req.schema.present /\ req.fileType \in Tabular) =>
        /\ req.jsonData = EmptyArr => (ret.kind = "throw" /\ Includes(ret.message, TextEmpty))
        /\ req.jsonData.t \in {"null", "number", "string", "boolean"} =>
                (ret.kind = "throw" /\ ret.message = NeitherArrayNorObject)

\* the label of the serializer byFileType selects, as its error message starts
LabelOf(fileType) ==
    CASE fileType = TypeCsv -> LabelCsv
      [] fileType = TypeYaml -> LabelYaml
      [] fileType = TypeXml -> LabelXml
      [] fileType = TypeXlsx -> LabelXlsx
      [] fileType = TypeJson -> LabelJaon
      [] OTHER -> LabelTxt

\* the issue as the claims render it: a path that is missing, empty or no array as
\* `unknown path`, a missing message as `No message provided`
Rendered(issue) ==
    ValidationErrorAt
    \o (IF IsArray(issue.path) /\ Len(issue.path.kids) > 0
        THEN ArrayJoin(Items(issue.path), <<".">>) ELSE UnknownPath)
    \o QuoteColon
    \o (IF issue.message.t = "undefined" THEN NoMessageProvided ELSE ToStr(issue.message))

\* C8: formatting never crashes on a malformed issue: every issue reported by a
\* rejecting safeParse is rendered, one whose path is missing, empty or no array
\* with `unknown path`, one without a message with `No message provided`.
C8_MalformedIssuesAreRendered ==
    (/\ ret.kind # "none"
     /\ req.schema.present
     /\ Probe(req.schema.caps) = "safeParse"
     /\ ~req.schema.safeParse.ok
     /\ Len(req.schema.safeParse.issues) > 0) =>
        /\ ret.kind = "throw"
        /\ ret.errName = "Error"
        /\ ret.message = LabelOf(req.fileType) \o ConversionError
                \o JoinText([i \in 1..Len(req.schema.safeParse.issues) |->
                                Rendered(req.schema.safeParse.issues[i])], CommaSpace)

\* the schema of r has validate called, and validate rejects
ValidateRejects(r) ==
    r.schema.present /\ Probe(r.schema.caps) = "validate" /\ ~r.schema.validate.ok

\* C9 as stated: when validate rejects with errors e1..en the failure carries
\* exactly n messages, the i-th being `Validation error at "unknown path": ei`.
C9_OneMessagePerError ==
    (ret.kind # "none" /\ ValidateRejects(req)) =>
        /\ ret.kind = "throw"
        /\ ret.message = LabelOf(req.fileType) \o ConversionError
                \o JoinText([i \in 1..Len(req.schema.validate.errors) |->
                        ValidationErrorAt \o UnknownPath \o QuoteColon \o req.schema.validate.errors[i].s],
                    CommaSpace)

\* C9 amended: when validate rejects with errors e1..en, the call throws an Error
\* whose message is `<LABEL> Conversion Error: ` followed by the messages, joined
\* by `, `, in the order of the errors: for n >= 1 exactly n messages, the i-th
\* being `Validation error at "unknown path": ei`, with `No message provided` in
\* place of an empty ei; for n = 0 the one message `Unknown error occurred! try
\* checking your JSON`.
C9_OneMessagePerErrorAmended ==
    (ret.kind # "none" /\ ValidateRejects(req)) =>
        LET errors == req.schema.validate.errors
        IN /\ ret.kind = "throw"
           /\ ret.errName = "Error"
           /\ ret.message = LabelOf(req.fileType) \o ConversionError
                \o (IF Len(errors) = 0 THEN UnknownErrorOccurred
                    ELSE JoinText([i \in 1..Len(errors) |->
                            ValidationErrorAt \o UnknownPath \o QuoteColon
                            \o (IF errors[i].s = <<>> THEN NoMessageProvided ELSE errors[i].s)],
                         CommaSpace))

\* validate rejected with two different errors, and the call threw
C9_Witness ==
    /\ ret.kind = "throw"
    /\ ValidateRejects(req)
    /\ Len(req.schema.validate.errors) = 2
    /\ req.schema.validate.errors[1] # req.schema.validate.errors[2]
    /\ req.schema.validate.errors[2].s # <<>>

RECURSIVE DottedPaths(_, _)
\* the dotted paths of a record: the keys of nested records joined by ".", down to
\* the first value that is no record
DottedPaths(record, prefix) ==
    UNION { LET path == IF prefix = <<>> THEN record.kids[i].k
                        ELSE prefix \o <<".">> \o record.kids[i].k
            IN IF IsRecord(record.kids[i].val) THEN DottedPaths(record.kids[i].val, path)
               ELSE {path}
            : i \in 1..Len(record.kids) }

\* the distinct dotted paths across the records of a sequence
DistinctPaths(records) == UNION {DottedPaths(records[i], <<>>) : i \in 1..Len(records)}

\* a non-empty sequence of records
IsRecordSequence(data) ==
    IsArray(data) /\ Len(data.kids) > 0 /\ \A i \in 1..Len(data.kids) : IsRecord(data.kids[i].val)

\* the lines of a text that ends every line with "\n"
Lines(text) ==
    LET pieces == SplitText(text, "\n")
    IN IF pieces[Len(pieces)] = <<>> THEN SubSeq(pieces, 1, Len(pieces) - 1) ELSE pieces

\* the number of comma-separated fields of a line
FieldCount(line) == Len(SplitText(line, ","))

RECURSIVE HasChar(_, _)
\* some key or some string anywhere in v contains the character ch
HasChar(v, ch) ==
    \/ \E i \in 1..Len(v.s) : v.s[i] = ch
    \/ \E i \in 1..Len(v.kids) :
          \/ \E j \in 1..Len(v.kids[i].k) : v.kids[i].k[j] = ch
          \/ HasChar(v.kids[i].val, ch)

RECURSIVE KeyHasChar(_, _)
\* some key anywhere in v contains the character ch
KeyHasChar(v, ch) ==
    \E i \in 1..Len(v.kids) :
        \/ \E j \in 1..Len(v.kids[i].k) : v.kids[i].k[j] = ch
        \/ KeyHasChar(v.kids[i].val, ch)

\* the data a csv call serializes, when its validation succeeds
Validated(r) == ParseWithSchema(r.schema, r.jsonData)

IsPlain(data) ==
    /\ ~HasChar(data, "\n")
    /\ ~KeyHasChar(data, ",")
    /\ DistinctPaths(Items(data)) # {}

EntityOf(ch) ==
    CASE ch = "&" -> EntityAmp
      [] ch = "<" -> EntityLt
      [] ch = ">" -> EntityGt
      [] ch = "\"" -> EntityQuot
      [] ch = "'" -> EntityApos
      [] OTHER -> <<ch>>

RECURSIVE EntityText(_)
\* every character of a text replaced once, left to right
EntityText(text) ==
    IF Len(text) = 0 THEN <<>> ELSE EntityOf(text[1]) \o EntityText(Tail(text))

\* the one string of a value made by Shaped, and the element it is the content of
ShapedText(data) ==
    CASE data.t = "string" -> data.s
      [] data.kids[1].val.t = "string" -> data.kids[1].val.s
      [] OTHER -> data.kids[1].val.kids[1].val.s

ShapedTag(data) ==
    CASE data.t = "string" -> <<>>
      [] data.t = "array" -> TextItem
      [] OTHER -> KeyA

\* the document the claims expect for a value made by Shaped: the string with every
\* character replaced once, inside its element, inside the root element if there is one
ExpectedXml(r) ==
    LET content == EntityText(ShapedText(r.jsonData))
        tag == ShapedTag(r.jsonData)
        inner == IF tag = <<>> THEN content
                 ELSE <<"<">> \o tag \o <<">">> \o content \o <<"<", "/">> \o tag \o <<">">>
    IN IF r.fileName = <<>> THEN inner
       ELSE <<"<">> \o r.fileName \o <<">">> \o inner \o <<"<", "/">> \o r.fileName \o <<">">>

HasOuterSpace(text) ==
    Len(text) > 0 /\ (text[1] \in WhiteSpace \/ text[Len(text)] \in WhiteSpace)

RECURSIVE ValueAt(_, _)
\* the value at a path as the claim states it: key after key, undefined as soon as
\* the value at hand is no record or lacks the key
ValueAt(value, parts) ==
    IF Len(parts) = 0 THEN value
    ELSE IF IsRecord(value) /\ \E i \in 1..Len(value.kids) : value.kids[i].k = parts[1]
    THEN ValueAt(GetProp(value, parts[1]), Tail(parts))
    ELSE Undef

\* the cell the claim expects for a record under a header
ExpectedCell(record, header) ==
    LET value == ValueAt(record, SplitText(header, "."))
    IN IF value.t = "undefined" THEN <<"\"">> \o TextUndefined \o <<"\"">> ELSE CsvCell(value)

\* C12: getValueFromPath looks a dotted path up key after key and yields undefined
\* whenever an intermediate key is missing or its value is no record, also when that
\* value is 0, false, "" or null: in csv output a record that lacks a column's path
\* gets the cell "undefined".
C12_MissingPathIsUndefined ==
    (/\ ret.kind = "return"
     /\ req.fileType = TypeCsv
     /\ ~req.schema.present
     /\ IsRecordSequence(req.jsonData)
     /\ ~HasChar(req.jsonData, "\n")) =>
        LET records == Items(req.jsonData)
            headers == ExtractHeaders(records)
            lines == Lines(ret.fileData.text)
        IN \A i \in 1..Len(records) :
              lines[i + 1] = JoinText([h \in 1..Len(headers) |-> ExpectedCell(records[i], headers[h])], <<",">>)

RECURSIVE Leaves(_)
\* the scalar leaves of a value
Leaves(v) ==
    IF v.t \in {"array", "object"}
    THEN UNION { Leaves(v.kids[i].val) : i \in 1..Len(v.kids) }
    ELSE {v}

\* C13: the markup serializer loses no data whatever the shape of the input, a
\* top-level sequence of records and a sequence inside a sequence included: every
\* scalar leaf appears as escaped text in the output and no record is rendered as
\* the placeholder "[object Object]".
C13_NoRecordIsStringified ==
    (/\ ret.kind = "return"
     /\ req.fileType = TypeXml
     /\ ~req.schema.present
     /\ req.fileName # <<>>) =>
        /\ \A leaf \in Leaves(req.jsonData) : Includes(ret.fileData.text, EscapeXml(leaf))
        /\ ~Includes(ret.fileData.text, TextObjectObject)

\* both calls of SpecRace are over, and both chose the same path and had a payload
\* that can be written
SamePathChosen ==
    /\ \A p \in Procs : procs[p].pc = "done" /\ IsWritable(procs[p].result.fileData)
    /\ procs[1].uniqueFileName # <<>>
    /\ procs[1].uniqueFileName = procs[2].uniqueFileName

\* C14: the search for a free name and the write are not one atomic step.  Two
\* concurrent calls with the same fileName, fileType and directory can both choose
\* the same path; then neither call fails, the first write creates the file, the
\* second replaces its content, and the directory has one new file, not two, which
\* holds the payload of the later writer.
C14_LaterWriteOverwrites ==
    SamePathChosen =>
        /\ \A p \in Procs : procs[p].ret = procs[p].result /\ procs[p].ret.kind = "return"
        /\ procs[1].req.fileType = procs[2].req.fileType
        /\ Len(writeLog) = 2
        /\ writeLog[1].proc # writeLog[2].proc
        /\ writeLog[1].created /\ ~writeLog[2].created
        /\ files[procs[1].uniqueFileName] = Written(procs[writeLog[2].proc].result.fileData)
        /\ Cardinality({ n \in DOMAIN files : files[n] # OldFile }) = 1

\* two calls with the same fileName and fileType and different payloads chose the
\* same path: the payload of the earlier writer is in no file
C14_Witness ==
    /\ SamePathChosen
    /\ procs[1].req.fileName = procs[2].req.fileName
    /\ procs[1].req.fileType = procs[2].req.fileType
    /\ Len(writeLog) = 2
    /\ ~writeLog[2].created
    /\ procs[1].result.fileData # procs[2].result.fileData
    /\ \A n \in DOMAIN files : files[n] # Written(procs[writeLog[1].proc].result.fileData)

====
